---- MODULE Spec2Model ----
(***************************************************************************)
(* Model of scraper.py (Marathon-QuickFilter):                             *)
(*   - get_filtered_soup: the GET + conditional year/region/type postbacks *)
(*   - parse_table_to_df and its nested parse_event_date                   *)
(*   - the Streamlit script: sidebar widgets, the query button handler,    *)
(*     the result display and the PDF file name                            *)
(* Strings the code inspects character by character (cell texts, keyword,  *)
(* file name) are sequences of one-character strings.                      *)
(***************************************************************************)
EXTENDS Integers, Sequences, FiniteSets, TLC

VARIABLES
    \* ---- get_filtered_soup(year, region, rtype) ----
    year, region, rtype,   \* the arguments
    pc,                    \* position in get_filtered_soup
    soup,                  \* parsed initial page (line 65)
    current_soup,          \* line 123
    requests,              \* HTTP requests issued through the session, in order
    received,              \* what came back for each request, in order
    result,                \* the returned page state, or None
    error,                 \* which raise ended the run, or None
    \* ---- parse_table_to_df(soup) ----
    tpc, page_in, df_out, now_year,
    \* ---- parse_event_date(event_name, date_str) ----
    dpc, event_name, date_str, parsed,
    \* ---- Streamlit script ----
    year_sel, region_sel, type_sel, keyword,   \* sidebar widgets
    session_df,            \* st.session_state["df"], or None when the key is absent
    origin,                \* history: widgets of the query that stored session_df
    offered,               \* file_name of the download button, or None
    last_run               \* what the last script run did in the button handler

navVars  == <<year, region, rtype, pc, soup, current_soup, requests, received, result, error>>
tblVars  == <<tpc, page_in, df_out>>
dateVars == <<dpc, event_name, date_str, parsed>>
uiVars   == <<year_sel, region_sel, type_sel, keyword, session_df, origin, offered, last_run>>
vars     == <<navVars, tblVars, dateVars, uiVars, now_year>>

\* Python's None, for a string-valued and for an object-valued variable
None   == "None"
NoPage == [none |-> "page"]

(***************************************************************************)
(* Python dict helpers                                                     *)
(***************************************************************************)
EmptyDict == [k \in {} |-> ""]

\* d.update(e) / "for k, v in e.items(): d[k] = v": e wins on common keys
DictUpdate(d, e) == e @@ d

(***************************************************************************)
(* 1. get_filtered_soup                                                    *)
(***************************************************************************)
ALL == "all"
NOW == "now"

\* values of the sidebar selectboxes (a sample of each option list)
year_options   == {"all", "now", "2024"}
region_options == {"all", "N", "C"}          \* "N", "C": two of the zone codes
type_options   == {"public", "all", "2"}

\* value= of the pre-selected <option> of each <select>; "" when the
\* attribute is missing (opt.get("value", ""))
DefaultYearVals   == {"2025"}
DefaultRegionVals == {"all", "N", ""}
DefaultTypeVals   == {"all", "public", ""}

YearName   == "ctl00$Year"
RegionName == "ctl00$DropDownList1"
TypeName   == "ctl00$type"

\* number of distinct __VIEWSTATE tokens the server may hand out, minus one
MaxViewState == 1

\* the hidden inputs of an ASP.NET form carrying view state vs
HiddenOf(vs) ==
    ("__VIEWSTATE" :> ToString(vs)) @@ ("__EVENTTARGET" :> "stale") @@ ("__EVENTARGUMENT" :> "stale")

MainForm(vs)  == [id |-> "aspnetForm", hidden |-> HiddenOf(vs)]
OtherForm(vs) == [id |-> "search", hidden |-> ("q" :> ToString(vs))]

FormLists ==
    {<<>>} \cup
    UNION {{ <<MainForm(vs)>>, <<OtherForm(vs)>>, <<OtherForm(vs), MainForm(vs)>> }
            : vs \in 0..MaxViewState}

\* A parsed page, as far as get_filtered_soup reads it.  has_*: the <select>
\* exists; *_name: its name attribute ("" when missing or empty); *_opt: it
\* has an <option selected>; default_*: that option's value.
GoodPage(dy, dr, dt, fl) ==
    [has_year |-> TRUE, has_region |-> TRUE, has_type |-> TRUE,
     year_name |-> YearName, region_name |-> RegionName, type_name |-> TypeName,
     year_opt |-> TRUE, region_opt |-> TRUE, type_opt |-> TRUE,
     default_year |-> dy, default_region |-> dr, default_type |-> dt,
     forms |-> fl]

GoodPages ==
    {GoodPage(dy, dr, dt, fl) : dy \in DefaultYearVals, dr \in DefaultRegionVals,
                                dt \in DefaultTypeVals, fl \in FormLists}

APage == GoodPage("2025", "all", "public", <<MainForm(0)>>)

\* pages on which step 2 or step 3 of get_filtered_soup raises
BrokenPages ==
    { [APage EXCEPT !.has_year = FALSE],   [APage EXCEPT !.has_region = FALSE],
      [APage EXCEPT !.has_type = FALSE],
      [APage EXCEPT !.year_name = ""],     [APage EXCEPT !.region_name = ""],
      [APage EXCEPT !.type_name = ""],
      [APage EXCEPT !.year_opt = FALSE],   [APage EXCEPT !.region_opt = FALSE],
      [APage EXCEPT !.type_opt = FALSE] }

InitialPages == GoodPages \cup BrokenPages

\* pages answering a postback: only their forms are read again
PostbackPages == {GoodPage("2025", "all", "public", fl) : fl \in FormLists}

\* what session.get / session.post can come back with
NetworkFailure == [kind |-> "exception", status |-> 0, page |-> NoPage]
HttpResponse(status, page) == [kind |-> "http", status |-> status, page |-> page]

GetResponses ==
    {NetworkFailure} \cup {HttpResponse(200, p) : p \in InitialPages}
                     \cup {HttpResponse(500, APage)}
PostResponses ==
    {NetworkFailure} \cup {HttpResponse(200, p) : p \in PostbackPages}
                     \cup {HttpResponse(500, APage)}

\* mutant: the status check left out
StatusOk_Dropped(resp) == TRUE

\* lines 63, 119: r.status_code != 200
StatusOk(resp) == resp.status = 200

\* lines 72-90: the raise (or None) of steps 2 and 3 on the parsed page
SelectCheck(p) ==
    IF ~p.has_year THEN "no_select_year"
    ELSE IF ~p.has_region THEN "no_select_region"
    ELSE IF ~p.has_type THEN "no_select_type"
    ELSE IF p.year_name = "" \/ p.region_name = "" \/ p.type_name = "" THEN "no_name"
    ELSE IF ~p.year_opt \/ ~p.region_opt \/ ~p.type_opt THEN "no_selected_option"
    ELSE None

\* lines 97-99: soup.find("form", id="aspnetForm"), else soup.find("form")
RECURSIVE FindFormById(_, _)
FindFormById(forms, id) ==
    IF forms = <<>> THEN NoPage
    ELSE IF Head(forms).id = id THEN Head(forms)
    ELSE FindFormById(Tail(forms), id)

\* mutant: a page without a form yields no hidden fields instead of a raise
extract_hidden_inputs_NoRaise(soup_inner) ==
    LET form == FindFormById(soup_inner.forms, "aspnetForm") IN
    IF form # NoPage THEN [raised |-> FALSE, data |-> form.hidden]
    ELSE IF soup_inner.forms # <<>>
         THEN [raised |-> FALSE, data |-> Head(soup_inner.forms).hidden]
         ELSE [raised |-> FALSE, data |-> EmptyDict]

\* lines 96-106
extract_hidden_inputs(soup_inner) ==
    LET form == FindFormById(soup_inner.forms, "aspnetForm") IN
    IF form # NoPage THEN [raised |-> FALSE, data |-> form.hidden]
    ELSE IF soup_inner.forms # <<>>
         THEN [raised |-> FALSE, data |-> Head(soup_inner.forms).hidden]
         ELSE [raised |-> TRUE, data |-> EmptyDict]

\* lines 110-114: the payload of a postback
postback_payload(hidden, event_target_name, selected_values) ==
    DictUpdate(DictUpdate(DictUpdate(hidden, selected_values),
                          "__EVENTTARGET" :> event_target_name),
               "__EVENTARGUMENT" :> "")

\* line 126
YearPostbackNeeded(y) == y \notin {NOW, ALL}

\* lines 135, 145: X if X != "all" else default
Selected(choice, default) == IF choice # ALL THEN choice ELSE default

\* mutant: the comparison with the page's default left out
PostbackNeeded_IgnoresDefault(selected, default) == selected # ALL

\* lines 136, 146: selected not in ["all", default]
PostbackNeeded(selected, default) == selected \notin {ALL, default}

\* lines 138, 148
YearValue(y, default_year_val) == IF y \notin {NOW, ALL} THEN y ELSE default_year_val

\* lines 127-131
YearValues(p, y) ==
    (p.year_name :> y) @@ (p.region_name :> p.default_region)
                       @@ (p.type_name :> p.default_type)

\* mutant: the year argument sent as it is, "now"/"all" included
RegionValues_RawYear(p, y, selected_region_val) ==
    (p.year_name :> y)
        @@ (p.region_name :> selected_region_val)
        @@ (p.type_name :> p.default_type)

\* lines 137-141
RegionValues(p, y, selected_region_val) ==
    (p.year_name :> YearValue(y, p.default_year))
        @@ (p.region_name :> selected_region_val)
        @@ (p.type_name :> p.default_type)

\* lines 147-151
TypeValues(p, y, selected_region_val, selected_type_val) ==
    (p.year_name :> YearValue(y, p.default_year))
        @@ (p.region_name :> selected_region_val)
        @@ (p.type_name :> selected_type_val)

NavIdle ==
    /\ year = "all" /\ region = "all" /\ rtype = "all"
    /\ pc = "idle" /\ soup = NoPage /\ current_soup = NoPage
    /\ requests = <<>> /\ received = <<>> /\ result = NoPage /\ error = None

\* a call get_filtered_soup(year, region, rtype) about to start
NavInit ==
    /\ year \in year_options /\ region \in region_options /\ rtype \in type_options
    /\ pc = "get" /\ soup = NoPage /\ current_soup = NoPage
    /\ requests = <<>> /\ received = <<>> /\ result = NoPage /\ error = None

Raise(what) ==
    /\ pc' = "error"
    /\ error' = what
    /\ UNCHANGED <<year, region, rtype, soup, current_soup, result>>

\* lines 58-93: the GET, the three selects, their names and defaults
InitialGet ==
    /\ pc = "get"
    /\ requests' = Append(requests, [method |-> "GET", data |-> EmptyDict])
    /\ \E resp \in GetResponses :
         /\ received' = Append(received, resp)
         /\ IF resp.kind = "exception" THEN Raise("unreachable")
            ELSE IF ~StatusOk(resp) THEN Raise("status")
            ELSE IF SelectCheck(resp.page) # None THEN Raise(SelectCheck(resp.page))
            ELSE /\ soup' = resp.page
                 /\ current_soup' = resp.page
                 /\ pc' = "year"
                 /\ UNCHANGED <<year, region, rtype, result, error>>

\* lines 109-121: postback(current_soup, event_target_name, selected_values),
\* then the assignment of its result to current_soup
Postback(event_target_name, selected_values, next) ==
    LET ex == extract_hidden_inputs(current_soup) IN
    IF ex.raised
    THEN /\ Raise("no_form")
         /\ UNCHANGED <<requests, received>>
    ELSE /\ requests' = Append(requests,
               [method |-> "POST",
                data |-> postback_payload(ex.data, event_target_name, selected_values)])
         /\ \E resp \in PostResponses :
              /\ received' = Append(received, resp)
              /\ IF resp.kind = "exception" THEN Raise("unreachable")
                 ELSE IF ~StatusOk(resp) THEN Raise("status")
                 ELSE /\ current_soup' = resp.page
                      /\ pc' = next
                      /\ UNCHANGED <<year, region, rtype, soup, result, error>>

Skip(next) ==
    /\ pc' = next
    /\ UNCHANGED <<year, region, rtype, soup, current_soup, requests, received, result, error>>

\* lines 125-132
YearStep ==
    /\ pc = "year"
    /\ IF YearPostbackNeeded(year)
       THEN Postback(soup.year_name, YearValues(soup, year), "region")
       ELSE Skip("region")

\* lines 134-142
RegionStep ==
    /\ pc = "region"
    /\ LET selected_region_val == Selected(region, soup.default_region) IN
       IF PostbackNeeded(selected_region_val, soup.default_region)
       THEN Postback(soup.region_name,
                     RegionValues(soup, year, selected_region_val), "type")
       ELSE Skip("type")

\* lines 144-152
TypeStep ==
    /\ pc = "type"
    /\ LET selected_region_val == Selected(region, soup.default_region)
           selected_type_val   == Selected(rtype, soup.default_type) IN
       IF PostbackNeeded(selected_type_val, soup.default_type)
       THEN Postback(soup.type_name,
                     TypeValues(soup, year, selected_region_val, selected_type_val),
                     "return")
       ELSE Skip("return")

\* line 154
Return ==
    /\ pc = "return"
    /\ result' = current_soup
    /\ pc' = "done"
    /\ UNCHANGED <<year, region, rtype, soup, current_soup, requests, received, error>>

(***************************************************************************)
(* Claims about get_filtered_soup (checked under SpecNav)                  *)
(***************************************************************************)
\* the page the GET brought, once it came with status 200
BaseFetched == Len(received) >= 1 /\ received[1].kind = "http" /\ received[1].status = 200
BasePage    == received[1].page

\* the __EVENTTARGET of each POST issued so far, in order
Triggers == [i \in 1..(Len(requests) - 1) |-> requests[i + 1].data["__EVENTTARGET"]]

YearWanted   == year \notin {"all", "now"}
RegionWanted == region # "all" /\ region # BasePage.default_region
TypeWanted   == rtype # "all" /\ rtype # BasePage.default_type

WantedTriggers ==
    (IF YearWanted THEN <<BasePage.year_name>> ELSE <<>>)
        \o (IF RegionWanted THEN <<BasePage.region_name>> ELSE <<>>)
        \o (IF TypeWanted THEN <<BasePage.type_name>> ELSE <<>>)

\* C1: a run that meets no error issues one GET first and then only POSTs,
\* triggered by year, region, type in that order, the year POST iff year is
\* neither "all" nor "now", the region (type) POST iff region (type) differs
\* from "all" and from the page's default; no control triggers two POSTs.
C1_RequestOrder ==
    /\ \A i \in 1..Len(requests) :
          requests[i].method = (IF i = 1 THEN "GET" ELSE "POST")
    /\ pc \in {"return", "done"} =>
          /\ Len(requests) >= 1
          /\ Triggers = WantedTriggers
          /\ Len(requests) <= 4

C1_Witness ==
    pc = "done" /\ Len(requests) = 4 /\ BasePage.default_region = "" /\ region = "C"

\* the hidden fields of a page: those of its form with id aspnetForm if it
\* has one, else those of its first form
HiddenFieldsOf(p) ==
    LET mains == {i \in 1..Len(p.forms) : p.forms[i].id = "aspnetForm"} IN
    IF mains # {} THEN p.forms[CHOOSE i \in mains : \A j \in mains : i <= j].hidden
    ELSE p.forms[1].hidden

YearPostHappenedBefore(j) ==
    \E i \in 2..(j - 1) : requests[i].data["__EVENTTARGET"] = BasePage.year_name

\* C2: every POST carries the hidden fields of the page received last,
\* overridden by the three control values and by the postback-target marker
\* naming the triggering control; the year POST sends (year, default region,
\* default type), the region POST (year or default year, region, default
\* type), the type POST (that year, the resolved region, type).
C2_PostbackPayload ==
    \A j \in 2..Len(requests) :
        LET data   == requests[j].data
            hid    == HiddenFieldsOf(received[j - 1].page)
            p      == BasePage
            names  == {p.year_name, p.region_name, p.type_name}
            marks  == {"__EVENTTARGET", "__EVENTARGUMENT"}
            t      == data["__EVENTTARGET"]
            y      == IF YearPostHappenedBefore(j) \/ t = p.year_name
                      THEN year ELSE p.default_year
            r      == IF region # "all" THEN region ELSE p.default_region
        IN /\ DOMAIN data = DOMAIN hid \cup names \cup marks
           /\ \A k \in DOMAIN hid \ (names \cup marks) : data[k] = hid[k]
           /\ data["__EVENTARGUMENT"] = ""
           /\ t \in names
           /\ data[p.year_name] = y
           /\ t = p.year_name =>
                 /\ data[p.year_name] = year
                 /\ data[p.region_name] = p.default_region
                 /\ data[p.type_name] = p.default_type
           /\ t = p.region_name =>
                 /\ data[p.region_name] = region
                 /\ data[p.type_name] = p.default_type
           /\ t = p.type_name =>
                 /\ data[p.region_name] = r
                 /\ data[p.type_name] = rtype

C2_Witness ==
    /\ Len(requests) = 4
    /\ HiddenFieldsOf(received[1].page) # HiddenFieldsOf(received[2].page)
    /\ HiddenFieldsOf(received[2].page) # HiddenFieldsOf(received[3].page)
    /\ requests[4].data[BasePage.year_name] = "2024"

FailedResponse(r) == r.kind = "exception" \/ r.status # 200

MarkupDefect(p) ==
    \/ ~p.has_year \/ ~p.has_region \/ ~p.has_type
    \/ p.year_name = "" \/ p.region_name = "" \/ p.type_name = ""
    \/ ~p.year_opt \/ ~p.region_opt \/ ~p.type_opt

\* C3: a network failure or a non-200 status on any request, a missing
\* select, name or pre-selected option, ends the run in an error: the failed
\* request is the last one issued and no page state is returned.
C3_FailureEndsRun ==
    /\ Len(received) = Len(requests)
    /\ \A i \in 1..Len(received) :
          FailedResponse(received[i]) =>
              pc = "error" /\ i = Len(requests) /\ result = NoPage
    /\ (BaseFetched /\ MarkupDefect(BasePage)) =>
          pc = "error" /\ Len(requests) = 1 /\ result = NoPage
    /\ pc = "error" => result = NoPage /\ error # None

C3_Witness ==
    pc = "error" /\ Len(requests) = 3 /\ received[3].status = 500 /\ error = "status"

FormlessBase == BaseFetched /\ ~MarkupDefect(BasePage) /\ BasePage.forms = <<>>

Digits == <<"0", "1", "2", "3", "4", "5", "6", "7", "8", "9">>

IsDigit(c) == \E i \in 1..10 : Digits[i] = c

\* int() of one digit
DigitVal(c) == (CHOOSE i \in 1..10 : Digits[i] = c) - 1

\* int() of a run of digits
RECURSIVE Num(_)
Num(ds) ==
    IF ds = <<>> THEN 0
    ELSE 10 * Num(SubSeq(ds, 1, Len(ds) - 1)) + DigitVal(ds[Len(ds)])

\* str() of a natural number
RECURSIVE Decimal(_)
Decimal(n) ==
    IF n < 10 THEN <<Digits[n + 1]>>
    ELSE Decimal(n \div 10) \o <<Digits[(n % 10) + 1]>>

\* "%0{w}d" % n
RECURSIVE ZeroPad(_, _)
ZeroPad(n, w) ==
    LET d == Decimal(n) IN
    IF Len(d) >= w THEN d ELSE <<"0">> \o ZeroPad(n, w - 1) 

IsSpace(c) == c \in {" ", "\t", "\n"}

\* s.startswith(p)
StartsWith(s, p) == Len(s) >= Len(p) /\ SubSeq(s, 1, Len(p)) = p

\* p in s, for texts
Contains(s, p) ==
    \E i \in 0..(Len(s) - Len(p)) : SubSeq(s, i + 1, i + Len(p)) = p

\* s.lstrip(), s.rstrip(), s.strip()
RECURSIVE LStrip(_)
LStrip(s) == IF s # <<>> /\ IsSpace(Head(s)) THEN LStrip(Tail(s)) ELSE s

RECURSIVE RStrip(_)
RStrip(s) ==
    IF s # <<>> /\ IsSpace(s[Len(s)]) THEN RStrip(SubSeq(s, 1, Len(s) - 1)) ELSE s

Strip(s) == LStrip(RStrip(s))

(***************************************************************************)
(* 3. parse_event_date (lines 214-227)                                     *)
(***************************************************************************)
NoDate == [none |-> "date"]

\* re.match(r"^\s*(\d{4})", event_name): group 1, or <<>> without a match
YearMatch(name) ==
    LET r == LStrip(name) IN
    IF Len(r) >= 4 /\ \A i \in 1..4 : IsDigit(r[i]) THEN SubSeq(r, 1, 4) ELSE <<>>

\* the (\d{1,2}) that ends at most two characters after position i, greedy
DigitRun(s, i) ==
    IF Len(s) >= i + 1 /\ IsDigit(s[i]) /\ IsDigit(s[i + 1]) THEN SubSeq(s, i, i + 1)
    ELSE IF Len(s) >= i /\ IsDigit(s[i]) THEN SubSeq(s, i, i)
    ELSE <<>>

\* re.match(r"(\d{1,2})/(\d{1,2})", date_str): the two groups, or no match.
\* The month group is tried with two digits, then with one; the day group
\* only has to be non-empty.
MonthDayMatch(s) ==
    LET TryMonth(n) ==
            LET m == SubSeq(s, 1, n)
                d == DigitRun(s, n + 2) IN
            IF /\ Len(s) >= n + 2
               /\ \A i \in 1..n : IsDigit(s[i])
               /\ s[n + 1] = "/"
               /\ d # <<>>
            THEN [matched |-> TRUE, month |-> m, day |-> d]
            ELSE [matched |-> FALSE, month |-> <<>>, day |-> <<>>]
    IN IF TryMonth(2).matched THEN TryMonth(2) ELSE TryMonth(1)

IsLeap(y) == y % 4 = 0 /\ (y % 100 # 0 \/ y % 400 = 0)

DaysInMonth(y, m) ==
    IF m = 2 THEN (IF IsLeap(y) THEN 29 ELSE 28)
    ELSE IF m \in {4, 6, 9, 11} THEN 30 ELSE 31

\* datetime(year=, month=, day=) does not raise ValueError
ValidDate(y, m, d) ==
    /\ y \in 1..9999
    /\ m \in 1..12
    /\ d >= 1 /\ d <= DaysInMonth(y, m)

\* mutant: no fallback to the current year
parse_event_date_NoFallback(name, dstr, now) ==
    LET m_year == YearMatch(name)
        m2     == MonthDayMatch(dstr) IN
    IF m_year = <<>> \/ ~m2.matched THEN NoDate
    ELSE IF ValidDate(Num(m_year), Num(m2.month), Num(m2.day))
         THEN [year |-> Num(m_year), month |-> Num(m2.month), day |-> Num(m2.day)]
         ELSE NoDate

parse_event_date(name, dstr, now) ==
    LET m_year   == YearMatch(name)
        year_val == IF m_year # <<>> THEN Num(m_year) ELSE now
        m2       == MonthDayMatch(dstr) IN
    IF ~m2.matched THEN NoDate
    ELSE LET month == Num(m2.month)
             day   == Num(m2.day) IN
         IF ValidDate(year_val, month, day)
         THEN [year |-> year_val, month |-> month, day |-> day]
         ELSE NoDate

\* sample event-name cells and date cells (texts as get_text(strip=True) gives them)
YearPrefixes ==
    { <<>>, <<"2", "0", "2">>, <<"2", "0", "2", "4">>, <<"2", "0", "2", "3">>,
      <<"1", "9", "0", "0">>, <<"2", "0", "0", "0">>, <<"0", "0", "0", "0">>,
      <<"2", "0", "2", "4", "5">> }
NameTails == { <<>>, <<" ", "x">>, <<"x", "1", "9", "9", "9">> }
EventNames ==
    {p \o t : p \in YearPrefixes, t \in NameTails} \cup {<<"x", "2", "0", "2", "4">>}

MonthTexts == { <<>>, <<"0">>, <<"2">>, <<"4">>, <<"1", "2">>, <<"1", "3">>,
                <<"0", "2">>, <<"1", "2", "3">> }
Separators == { <<"/">>, <<"-">>, <<"/", "/">> }
DayTexts   == { <<>>, <<"0">>, <<"1">>, <<"2", "9">>, <<"3", "0">>, <<"3", "1">>,
                <<"3", "2">>, <<"1", "5", "5">> }
DateTails  == { <<>>, <<"(", "x", ")">> }
DateCells  ==
    {m \o s \o d \o t : m \in MonthTexts, s \in Separators, d \in DayTexts, t \in DateTails}
        \cup {<<"x", "3", "/", "1", "0">>}

\* datetime.now().year
NowYears == {2025, 2028}

DateIdle == dpc = "idle" /\ event_name = <<>> /\ date_str = <<>> /\ parsed = NoDate

DateInit ==
    /\ dpc = "call"
    /\ event_name \in EventNames
    /\ date_str \in DateCells
    /\ parsed = NoDate

\* one call parse_event_date(event_name, date_str)
ParseEventDate ==
    /\ dpc = "call"
    /\ parsed' = parse_event_date(event_name, date_str, now_year)
    /\ dpc' = "done"
    /\ UNCHANGED <<event_name, date_str>>


(***************************************************************************)
(* Claim about parse_event_date (checked under SpecDate)                   *)
(***************************************************************************)
DigitChars == {"0", "1", "2", "3", "4", "5", "6", "7", "8", "9"}

ValueOfDigit(c) ==
    CASE c = "0" -> 0 [] c = "1" -> 1 [] c = "2" -> 2 [] c = "3" -> 3 [] c = "4" -> 4
      [] c = "5" -> 5 [] c = "6" -> 6 [] c = "7" -> 7 [] c = "8" -> 8 [] c = "9" -> 9

HasYearPrefix(name) == Len(name) >= 4 /\ \A i \in 1..4 : name[i] \in DigitChars

\* Y of the claim
ClaimedYear ==
    IF HasYearPrefix(event_name)
    THEN 1000 * ValueOfDigit(event_name[1]) + 100 * ValueOfDigit(event_name[2])
            + 10 * ValueOfDigit(event_name[3]) + ValueOfDigit(event_name[4])
    ELSE now_year

\* the ways to write n with one or two digits
Spellings(n) == IF n < 10 THEN {Decimal(n), <<"0">> \o Decimal(n)} ELSE {Decimal(n)}

\* the date cell starts with "m/": m written with one or two digits
StartsWithMonth(m) == \E ms \in Spellings(m) : StartsWith(date_str, ms \o <<"/">>)

\* the date cell starts with "m/d", d being all the (at most two) digits there
StartsWithMonthDay(m, d) ==
    \E ms \in Spellings(m), ds \in Spellings(d) :
        LET pre == ms \o <<"/">> \o ds IN
        /\ StartsWith(date_str, pre)
        /\ Len(ds) = 1 => (Len(date_str) = Len(pre) \/ date_str[Len(pre) + 1] \notin DigitChars)

MonthLengths == <<31, 28, 31, 30, 31, 30, 31, 31, 30, 31, 30, 31>>

IsCalendarDate(y, m, d) ==
    /\ y >= 1 /\ y <= 9999 /\ m >= 1 /\ m <= 12 /\ d >= 1
    /\ d <= (IF m = 2 /\ y % 4 = 0 /\ (y % 100 # 0 \/ y % 400 = 0)
             THEN 29 ELSE MonthLengths[m])

MonthDayPrefixes ==
    {md \in {m \in 0..99 : StartsWithMonth(m)} \X (0..99) : StartsWithMonthDay(md[1], md[2])}

\* C7: parse_event_date returns the date (Y, M, D), Y the 4-digit prefix of
\* the event name or else the current year, M/D the month/day prefix of the
\* date cell; it returns null when the cell has no such prefix or (Y, M, D)
\* is no calendar date.
C7_ParsedDate ==
    dpc = "done" =>
        IF MonthDayPrefixes = {} THEN parsed = NoDate
        ELSE \A md \in MonthDayPrefixes :
                parsed = IF IsCalendarDate(ClaimedYear, md[1], md[2])
                         THEN [year |-> ClaimedYear, month |-> md[1], day |-> md[2]]
                         ELSE NoDate

C7_Witness ==
    /\ dpc = "done" /\ ~HasYearPrefix(event_name) /\ now_year = 2028
    /\ parsed = [year |-> 2028, month |-> 2, day |-> 29]

(***************************************************************************)
(* 4. parse_table_to_df (lines 160-252)                                    *)
(***************************************************************************)
GridId == "ctl00_ContentPlaceHolder1_GridView1"

\* the three header labels the code looks for, spelled in ASCII: the event
\* name (lines 165, 178), the date (lines 165, 232), the location (line 245)
EventNameLabel == <<"E", "v", "e", "n", "t">>
DateLabel      == <<"D", "a", "t", "e">>
LocationLabel  == <<"P", "l", "a", "c", "e">>

\* "http://www.taipeimarathon.org.tw/contest.aspx" (lines 55, 205)
BaseUrl ==
    <<"h", "t", "t", "p", ":", "/", "/", "w", "w", "w", ".", "t", "a", "i", "p", "e", "i",
      "m", "a", "r", "a", "t", "h", "o", "n", ".", "o", "r", "g", ".", "t", "w", "/",
      "c", "o", "n", "t", "e", "s", "t", ".", "a", "s", "p", "x">>

Http == <<"h", "t", "t", "p">>

\* lines 238, 242
MapsSearchBase ==
    <<"h", "t", "t", "p", "s", ":", "/", "/", "w", "w", "w", ".", "g", "o", "o", "g", "l", "e",
      ".", "c", "o", "m", "/", "m", "a", "p", "s", "/", "s", "e", "a", "r", "c", "h", "/",
      "?", "a", "p", "i", "=", "1", "&", "q", "u", "e", "r", "y", "=">>
MapsEmbedBase ==
    <<"h", "t", "t", "p", "s", ":", "/", "/", "m", "a", "p", "s", ".", "g", "o", "o", "g", "l",
      "e", ".", "c", "o", "m", "/", "m", "a", "p", "s", "?", "q", "=">>
EmbedSuffix == <<"&", "o", "u", "t", "p", "u", "t", "=", "e", "m", "b", "e", "d">>

\* A parsed cell: its tag, its text as get_text(strip=True) returns it, and
\* the href of its first <a href=...>, if it has one.
Cell(tag, text, has_link, href) ==
    [tag |-> tag, text |-> text, has_link |-> has_link, href |-> href]

\* urllib.parse.urljoin(BaseUrl, href) for a relative reference that is a
\* plain file name (no scheme, no "/", no "?", no dot segment), or empty
RECURSIVE DirOf(_)
DirOf(url) ==
    IF url = <<>> \/ url[Len(url)] = "/" THEN url
    ELSE DirOf(SubSeq(url, 1, Len(url) - 1))

UrlJoin(base, href) == IF href = <<>> THEN base ELSE DirOf(base) \o href

\* lines 199-207
EventLink(td_event) ==
    IF td_event.has_link
    THEN (IF StartsWith(td_event.href, Http) THEN td_event.href
          ELSE UrlJoin(BaseUrl, td_event.href))
    ELSE <<>>

\* urllib.parse.quote(addr) on the characters the model's texts use:
\* letters, digits and "_.-~/" stay, the others become %XX
QuoteChar(c) ==
    CASE c = " " -> <<"%", "2", "0">>
      [] c = "(" -> <<"%", "2", "8">>
      [] c = ")" -> <<"%", "2", "9">>
      [] OTHER   -> <<c>>

RECURSIVE Quote(_)
Quote(addr) == IF addr = <<>> THEN <<>> ELSE QuoteChar(Head(addr)) \o Quote(Tail(addr))

\* lines 237-243
make_maps_link(addr)  == MapsSearchBase \o Quote(addr)
make_maps_embed(addr) == MapsEmbedBase \o Quote(addr) \o EmbedSuffix

Texts(cells) == [i \in 1..Len(cells) |-> cells[i].text]

IsTd(c) == c.tag = "td"

\* first index of x in seq (list.index, counted from 1); x must occur
IndexOf(seq, x) ==
    CHOOSE i \in 1..Len(seq) : seq[i] = x /\ \A j \in 1..(i - 1) : seq[j] # x

Count(seq, x) == Cardinality({i \in 1..Len(seq) : seq[i] = x})

InSeq(seq, x) == \E i \in 1..Len(seq) : seq[i] = x

NoTable == [none |-> "table"]

\* line 161: soup.find("table", id=...)
RECURSIVE FindTableById(_, _)
FindTableById(tables, id) ==
    IF tables = <<>> THEN NoTable
    ELSE IF Head(tables).id = id THEN Head(tables)
    ELSE FindTableById(Tail(tables), id)

\* line 164: the texts of every <th> of the table
ThTexts(tbl) ==
    UNION { {tbl.rows[r].cells[c].text :
                c \in {k \in 1..Len(tbl.rows[r].cells) : tbl.rows[r].cells[k].tag = "th"}}
            : r \in 1..Len(tbl.rows) }

\* lines 163-167: the first table with both labels among its <th> texts
RECURSIVE FindTableByHeader(_)
FindTableByHeader(tables) ==
    IF tables = <<>> THEN NoTable
    ELSE IF EventNameLabel \in ThTexts(Head(tables)) /\ DateLabel \in ThTexts(Head(tables))
         THEN Head(tables)
         ELSE FindTableByHeader(Tail(tables))

\* lines 161-167
FindTable(page) ==
    LET byId == FindTableById(page.tables, GridId) IN
    IF byId # NoTable THEN byId ELSE FindTableByHeader(page.tables)

\* line 174: indices (counted from 1) of the header cells with a non-blank label
valid_indices(raw_headers) ==
    SelectSeq([i \in 1..Len(raw_headers) |-> i],
              LAMBDA i : Strip(raw_headers[i]) # <<>>)

\* line 190: all(txt == "" for txt in texts)
AllBlank(texts) == \A i \in 1..Len(texts) : texts[i] = <<>>

\* lines 186-208 for one <tr>: "skip" (continue), "raise" (IndexError at
\* line 194) or "keep" with the row's kept texts and event link
RowOutcome(row, vi, event_idx) ==
    LET cells == SelectSeq(row.cells, IsTd)
        texts == Texts(cells) IN
    IF cells = <<>> THEN [kind |-> "skip", texts |-> <<>>, link |-> <<>>]
    ELSE IF AllBlank(texts) THEN [kind |-> "skip", texts |-> <<>>, link |-> <<>>]
    ELSE IF \E k \in 1..Len(vi) : vi[k] > Len(texts)
         THEN [kind |-> "raise", texts |-> <<>>, link |-> <<>>]
         ELSE [kind |-> "keep",
               texts |-> [k \in 1..Len(vi) |-> texts[vi[k]]],
               link  |-> EventLink(cells[vi[event_idx]])]

IsKept(o) == o.kind = "keep"

\* pd.DataFrame(): no columns, no rows
EmptyFrame ==
    [columns |-> <<>>, data |-> <<>>, event_links |-> <<>>, parsed_date |-> <<>>,
     map_links |-> <<>>, embed_urls |-> <<>>]

Returned(df) == [raised |-> None, df |-> df]
Raised(exc)  == [raised |-> exc, df |-> EmptyFrame]

\* df.empty
IsEmpty(df) == df.data = <<>>

\* lines 229-234 for row i: r.get(label, "") is the cell under that label, ""
\* when no column has it
RowGet(headers, texts, label) ==
    IF InSeq(headers, label) THEN texts[IndexOf(headers, label)] ELSE <<>>

\* lines 160-252.  headers, data, event_links, parsed_date, map_links and
\* embed_urls are the frame's columns: the kept header labels with the rows'
\* kept texts, then the event link, parsed_date, the map link and the embed URL.
parse_table_to_df(page, now) ==
    LET table == FindTable(page) IN
    IF table = NoTable THEN Returned(EmptyFrame)
    ELSE IF table.rows = <<>> THEN Raised("AttributeError")  \* line 173: None.find_all
    ELSE
    LET raw_headers == Texts(table.rows[1].cells)
        vi          == valid_indices(raw_headers)
        headers     == [k \in 1..Len(vi) |-> raw_headers[vi[k]]] IN
    IF ~InSeq(headers, EventNameLabel) THEN Returned(EmptyFrame)
    ELSE
    LET event_idx == IndexOf(headers, EventNameLabel)
        outcomes  == [r \in 1..(Len(table.rows) - 1) |->
                         RowOutcome(table.rows[r + 1], vi, event_idx)]
        kept      == SelectSeq(outcomes, IsKept)
        data      == [i \in 1..Len(kept) |-> kept[i].texts]
        links     == [i \in 1..Len(kept) |-> kept[i].link] IN
    IF \E r \in 1..Len(outcomes) : outcomes[r].kind = "raise" THEN Raised("IndexError")
    \* lines 231-233: with a label twice in the header r.get returns a Series,
    \* and re.match raises TypeError on it
    ELSE IF data # <<>> /\ (Count(headers, EventNameLabel) > 1 \/ Count(headers, DateLabel) > 1)
         THEN Raised("TypeError")
    \* line 246: with the location label twice df[label] is a frame, and
    \* quote() raises on a column of it
    ELSE IF data # <<>> /\ Count(headers, LocationLabel) > 1 THEN Raised("TypeError")
    ELSE Returned(
        [columns     |-> headers,
         data        |-> data,
         event_links |-> links,
         parsed_date |-> [i \in 1..Len(data) |->
                            parse_event_date(RowGet(headers, data[i], EventNameLabel),
                                             RowGet(headers, data[i], DateLabel), now)],
         map_links   |-> [i \in 1..Len(data) |->
                            IF InSeq(headers, LocationLabel)
                            THEN make_maps_link(RowGet(headers, data[i], LocationLabel))
                            ELSE <<>>],
         embed_urls  |-> [i \in 1..Len(data) |->
                            IF InSeq(headers, LocationLabel)
                            THEN make_maps_embed(RowGet(headers, data[i], LocationLabel))
                            ELSE <<>>]])

\* ---- the pages parse_table_to_df is called on ----
MaxRows == 2
Widths  == {0, 1, 2}

SeqsOfLen(S, lens) == UNION {[1..k -> S] : k \in lens}

HeaderLabels == {<<>>, EventNameLabel, DateLabel, LocationLabel}
CellTexts    == {<<>>, <<"a">>}
LinkKinds    == {[has_link |-> FALSE, href |-> <<>>], [has_link |-> TRUE, href |-> <<"e">>]}

HeaderRows ==
    {[cells |-> [i \in 1..Len(ls) |-> Cell(tag, ls[i], FALSE, <<>>)]] :
        tag \in {"th", "td"}, ls \in SeqsOfLen(HeaderLabels, Widths)}

DataRows ==
    {[cells |-> [i \in 1..Len(ts) |-> Cell("td", ts[i], l.has_link, l.href)]] :
        ts \in SeqsOfLen(CellTexts, Widths), l \in LinkKinds}

Tables ==
    {[id |-> id, rows |-> <<h>> \o ds] :
        id \in {GridId, "other"}, h \in HeaderRows, ds \in SeqsOfLen(DataRows, 0..MaxRows)}
    \cup {[id |-> id, rows |-> <<>>] : id \in {GridId, "other"}}

TablePages == {[tables |-> <<>>]} \cup {[tables |-> <<t>>] : t \in Tables}

TableIdle == tpc = "idle" /\ page_in = [tables |-> <<>>] /\ df_out = Returned(EmptyFrame)

TableInit ==
    /\ tpc = "call"
    /\ page_in \in TablePages
    /\ df_out = Returned(EmptyFrame)

\* one call parse_table_to_df(page_in)
ParseTable ==
    /\ tpc = "call"
    /\ df_out' = parse_table_to_df(page_in, now_year)
    /\ tpc' = "done"
    /\ UNCHANGED page_in

(***************************************************************************)
(* Claims about parse_table_to_df (checked under SpecTable)                *)
(***************************************************************************)
\* C5: parse_table_to_df never ends in an error, whatever the page.
C5_NeverRaises == tpc = "done" => df_out.raised = None

TheTable   == page_in.tables[1]
HeaderRow  == TheTable.rows[1].cells
DataRowIds == 2..Len(TheTable.rows)

\* kept columns: those with a non-blank header label
KeptColumns == {c \in 1..Len(HeaderRow) : HeaderRow[c].text # <<>>}

NthOf(S, k) == CHOOSE x \in S : Cardinality({y \in S : y < x}) = k - 1

\* the record the claim expects for data row r
KeptTexts(r) ==
    [j \in 1..Cardinality(KeptColumns) |-> TheTable.rows[r].cells[NthOf(KeptColumns, j)].text]

\* the frame holds, in row order, one record of kept texts per row of rowIds
HoldsRows(rowIds) ==
    /\ df_out.raised = None
    /\ df_out.df.columns = [j \in 1..Cardinality(KeptColumns) |-> HeaderRow[NthOf(KeptColumns, j)].text]
    /\ Len(df_out.df.data) = Cardinality(rowIds)
    /\ \A k \in 1..Cardinality(rowIds) : df_out.df.data[k] = KeptTexts(NthOf(rowIds, k))

\* the tables C6 is about: the extractor's table, with the event-name label
\* in its header, no label twice, and as many <td> in each data row as the
\* header row has cells
RegularTable ==
    /\ page_in.tables # <<>>
    /\ FindTable(page_in) = TheTable
    /\ TheTable.rows # <<>>
    /\ \E c \in KeptColumns : HeaderRow[c].text = EventNameLabel
    /\ \A c, d \in KeptColumns : HeaderRow[c].text = HeaderRow[d].text => c = d
    /\ \A r \in DataRowIds :
          /\ Len(TheTable.rows[r].cells) = Len(HeaderRow)
          /\ \A c \in 1..Len(HeaderRow) : TheTable.rows[r].cells[c].tag = "td"

\* C6: the frame holds one record per data row with non-blank text in at
\* least one kept column, in row order, each holding the kept columns' texts.
C6_RowsNonBlankInKeptColumns ==
    (tpc = "done" /\ RegularTable) =>
        HoldsRows({r \in DataRowIds :
                      \E c \in KeptColumns : TheTable.rows[r].cells[c].text # <<>>})

(***************************************************************************)
(* 5. The Streamlit script (lines 268-473)                                 *)
(***************************************************************************)
\* values of the three selectboxes, as texts (a sample of lines 271, 279, 290)
AllText    == <<"a", "l", "l">>
NowText    == <<"n", "o", "w">>
UiYears    == {AllText, NowText, <<"2", "0", "2", "4">>}
UiRegions  == {AllText, <<"N">>}
UiTypes    == {<<"p", "u", "b", "l", "i", "c">>, <<"2">>}

\* what the user may type into the keyword box
Keywords ==
    { <<>>, <<"a">>, <<".">>, <<"(">>, <<" ", "a", " ", "b">> }

NoFrame    == [none |-> "frame"]      \* "df" not in st.session_state
NoOrigin   == [none |-> "origin"]
NotOffered == <<>>                    \* no download button in the page

\* re.compile(pat) on the patterns of Keywords (letters, blanks, "." and
\* "("): a "(" that is never closed is an error
RegexValid(pat) == ~InSeq(pat, "(")

\* re.search(pat, text) for a valid pattern of Keywords: "." matches any
\* character, every other character itself
RegexSearch(pat, text) ==
    \E i \in 0..(Len(text) - Len(pat)) :
        \A j \in 1..Len(pat) : pat[j] = "." \/ pat[j] = text[i + j]

\* str() of a parsed_date cell: a Timestamp prints as date and time, a null
\* as NaT in a datetime column and as None in a column of nulls only
DateStr(d, column) ==
    IF d = NoDate
    THEN (IF \A i \in 1..Len(column) : column[i] = NoDate
          THEN <<"N", "o", "n", "e">> ELSE <<"N", "a", "T">>)
    ELSE ZeroPad(d.year, 4) \o <<"-">> \o ZeroPad(d.month, 2) \o <<"-">> \o ZeroPad(d.day, 2)
            \o <<" ", "0", "0", ":", "0", "0", ":", "0", "0">>

\* line 320: r.astype(str), the text of every column of row i
RowStrings(df, i) ==
    df.data[i] \o <<df.event_links[i], DateStr(df.parsed_date[i], df.parsed_date),
                    df.map_links[i], df.embed_urls[i]>>

\* line 320: the mask, as the set of row numbers it keeps
KeywordMask(df, kw) ==
    {i \in 1..Len(df.data) :
        \E strs \in {RowStrings(df, i)} :
            \E c \in 1..Len(strs) : RegexSearch(kw, strs[c])}

RowIndices(df) == [i \in 1..Len(df.data) |-> i]

\* line 321: df[mask]
SelectRows(df, mask) ==
    LET idx == SelectSeq(RowIndices(df), LAMBDA i : i \in mask) IN
    [columns     |-> df.columns,
     data        |-> [k \in 1..Len(idx) |-> df.data[idx[k]]],
     event_links |-> [k \in 1..Len(idx) |-> df.event_links[idx[k]]],
     parsed_date |-> [k \in 1..Len(idx) |-> df.parsed_date[idx[k]]],
     map_links   |-> [k \in 1..Len(idx) |-> df.map_links[idx[k]]],
     embed_urls  |-> [k \in 1..Len(idx) |-> df.embed_urls[idx[k]]]]

\* what get_filtered_soup hands to the handler: a raise, or a page state
NavRaised      == [raised |-> TRUE, page |-> [tables |-> <<>>]]
NavReturned(p) == [raised |-> FALSE, page |-> p]

HandlerRun(kind, df) == [kind |-> kind, df |-> df]

\* mutant: the extraction is stored before it is tested for emptiness
query_handler_StoresEmpty(old_df, nav, kw, now) ==
    IF nav.raised THEN HandlerRun("nav_error", old_df)
    ELSE LET pr == parse_table_to_df(nav.page, now) IN
         IF pr.raised # None THEN HandlerRun("parse_error", old_df)
         ELSE IF IsEmpty(pr.df) THEN HandlerRun("empty", pr.df)
         ELSE IF Strip(kw) # <<>>
              THEN (IF ~RegexValid(kw) THEN HandlerRun("keyword_error", old_df)
                    ELSE HandlerRun("stored", SelectRows(pr.df, KeywordMask(pr.df, kw))))
              ELSE HandlerRun("stored", pr.df)

\* lines 310-324: the button handler; df is st.session_state["df"] after it,
\* kind the branch that ended it.  Every exception is caught at line 323 and
\* leaves the session state alone.
query_handler(old_df, nav, kw, now) ==
    IF nav.raised THEN HandlerRun("nav_error", old_df)
    ELSE LET pr == parse_table_to_df(nav.page, now) IN
         IF pr.raised # None THEN HandlerRun("parse_error", old_df)
         ELSE IF IsEmpty(pr.df) THEN HandlerRun("empty", old_df)
         ELSE IF Strip(kw) # <<>>
              THEN (IF ~RegexValid(kw) THEN HandlerRun("keyword_error", old_df)
                    ELSE HandlerRun("stored", SelectRows(pr.df, KeywordMask(pr.df, kw))))
              ELSE HandlerRun("stored", pr.df)

\* history of the last script run: the handler's branch, and the keyword and
\* navigation result it worked on
LastRun(kind, kw, nav) == [kind |-> kind, keyword |-> kw, nav |-> nav]

NoClick == LastRun("no_click", <<>>, NavRaised)

\* keyword.strip().replace(" ", "_")
RECURSIVE ReplaceSpaces(_)
ReplaceSpaces(t) ==
    IF t = <<>> THEN <<>>
    ELSE <<IF Head(t) = " " THEN "_" ELSE Head(t)>> \o ReplaceSpaces(Tail(t))

\* "_".join(parts)
RECURSIVE Join(_)
Join(parts) ==
    IF parts = <<>> THEN <<>>
    ELSE IF Len(parts) = 1 THEN parts[1]
    ELSE parts[1] \o <<"_">> \o Join(Tail(parts))

\* lines 457-465
pdf_filename(y, r, t, kw) ==
    LET fn_year    == IF y \notin {NowText, AllText} THEN y
                      ELSE <<"a", "l", "l", "Y", "e", "a", "r", "s">>
        fn_keyword == IF Strip(kw) # <<>> THEN ReplaceSpaces(Strip(kw)) ELSE <<>>
        parts      == IF fn_keyword # <<>> THEN <<fn_year, r, t, fn_keyword>>
                      ELSE <<fn_year, r, t>>
    IN Join(parts) \o <<".", "p", "d", "f">>

\* lines 327-473: the main area of one script run.  The download button is
\* reached when the frame is stored and non-empty and has the location
\* column that lines 334 and 345 index (KeyError otherwise).
main_area(df, y, r, t, kw) ==
    IF df # NoFrame /\ ~IsEmpty(df) /\ InSeq(df.columns, LocationLabel)
    THEN pdf_filename(y, r, t, kw)
    ELSE NotOffered

\* ---- pages the site may answer a query with ----
TextRow(texts, has_link, href) ==
    [cells |-> [i \in 1..Len(texts) |-> Cell("td", texts[i], has_link, href)]]
HeadRow(labels) ==
    [cells |-> [i \in 1..Len(labels) |-> Cell("th", labels[i], FALSE, <<>>)]]
Grid(rows) == [tables |-> <<[id |-> GridId, rows |-> rows]>>]

UiPages ==
    { [tables |-> <<>>],
      Grid(<<HeadRow(<<EventNameLabel, DateLabel, LocationLabel>>)>>),
      Grid(<<HeadRow(<<EventNameLabel, DateLabel, LocationLabel>>),
             TextRow(<< <<"2", "0", "2", "4", " ", "a">>, <<"3", "/", "1", "0">>, <<"a", " ", "b">> >>,
                     TRUE, <<"e">>),
             TextRow(<< <<"b">>, <<"x">>, <<"b">> >>, FALSE, <<>>)>>),
      Grid(<<HeadRow(<<EventNameLabel, LocationLabel>>),
             TextRow(<< <<"a">>, <<"b", "a">> >>, FALSE, <<>>),
             TextRow(<< <<"A">>, <<"b">> >>, FALSE, <<>>)>>),
      Grid(<<HeadRow(<<EventNameLabel>>),
             TextRow(<< <<"a">> >>, FALSE, <<>>)>>),
      Grid(<<HeadRow(<<EventNameLabel, LocationLabel>>),
             TextRow(<< <<"a">> >>, FALSE, <<>>)>>) }

NavResults == {NavRaised} \cup {NavReturned(p) : p \in UiPages}

UiIdle ==
    /\ year_sel = AllText /\ region_sel = AllText /\ type_sel = <<"p", "u", "b", "l", "i", "c">>
    /\ keyword = <<>>
    /\ session_df = NoFrame /\ origin = NoOrigin /\ offered = NotOffered
    /\ last_run = NoClick

\* the first run of the script in a new session: the first option of every
\* selectbox, an empty keyword, nothing in the session state
UiInit == UiIdle

\* a script run that the button did not start: line 308 is False, the main
\* area is drawn from the stored frame and the widgets as they are now
Rerun(y, r, t, kw) ==
    /\ year_sel' = y /\ region_sel' = r /\ type_sel' = t /\ keyword' = kw
    /\ last_run' = NoClick
    /\ offered' = main_area(session_df, y, r, t, kw)
    /\ UNCHANGED <<session_df, origin>>

ChangeYear ==
    \E y \in UiYears \ {year_sel} : Rerun(y, region_sel, type_sel, keyword)

ChangeRegion ==
    \E r \in UiRegions \ {region_sel} : Rerun(year_sel, r, type_sel, keyword)

ChangeType ==
    \E t \in UiTypes \ {type_sel} : Rerun(year_sel, region_sel, t, keyword)

ChangeKeyword ==
    \E kw \in Keywords \ {keyword} : Rerun(year_sel, region_sel, type_sel, kw)

\* the script run the button starts: the handler (lines 308-324), then the
\* main area
ClickQuery ==
    \E nav \in NavResults :
      \E run \in {query_handler(session_df, nav, keyword, now_year)} :
        /\ last_run' = LastRun(run.kind, keyword, nav)
        /\ session_df' = run.df
        /\ origin' = IF run.kind = "stored"
                     THEN [year |-> year_sel, region |-> region_sel, type |-> type_sel,
                           keyword |-> keyword]
                     ELSE origin
        /\ offered' = main_area(run.df, year_sel, region_sel, type_sel, keyword)
        /\ UNCHANGED <<year_sel, region_sel, type_sel, keyword>>

(***************************************************************************)
(* Claims about the Streamlit script (checked under SpecUi)                *)
(***************************************************************************)
\* the script run was started by the button
ByButton(run) == run.kind # "no_click"

\* what parse_table_to_df makes of the page a query got
ParseOf(run) == parse_table_to_df(run.nav.page, now_year)

\* the query got a page and extracted a non-empty record set from it
Extracted(run) ==
    /\ ByButton(run) /\ ~run.nav.raised
    /\ ParseOf(run).raised = None /\ ~IsEmpty(ParseOf(run).df)

\* the rows of df with the keyword as a literal substring of some column
LiteralMatches(df, kw) ==
    {i \in 1..Len(df.data) :
        \E c \in 1..Len(RowStrings(df, i)) : Contains(RowStrings(df, i)[c], kw)}

\* C8: with a non-blank keyword and a non-empty extraction, the query does
\* not end in an error and stores exactly the rows in which some column's
\* text contains the keyword as a literal substring, in their order.
C8_KeywordLiteralSubstring ==
    (Extracted(last_run) /\ Strip(last_run.keyword) # <<>>) =>
        /\ last_run.kind = "stored"
        /\ session_df = SelectRows(ParseOf(last_run).df,
                                   LiteralMatches(ParseOf(last_run).df, last_run.keyword))

\* C9: the file name offered for download is built from the selection and
\* keyword of the query that produced the stored record set.
C9_FilenameOfOriginatingQuery ==
    offered # NotOffered =>
        /\ origin # NoOrigin
        /\ offered = pdf_filename(origin.year, origin.region, origin.type, origin.keyword)

\* the query ended in an error, got no page, or extracted nothing
FailedOrEmpty(run) ==
    /\ ByButton(run)
    /\ \/ run.nav.raised
       \/ ParseOf(run).raised # None
       \/ IsEmpty(ParseOf(run).df)
       \/ (Strip(run.keyword) # <<>> /\ ~RegexValid(run.keyword))

\* the extraction of a query, filtered by its keyword as line 320 does
KeywordFiltered(run) ==
    IF Strip(run.keyword) = <<>> THEN ParseOf(run).df
    ELSE SelectRows(ParseOf(run).df, KeywordMask(ParseOf(run).df, run.keyword))

\* C10: the stored record set changes only in a query run with a non-empty
\* extraction, which replaces it by the keyword-filtered rows of that
\* extraction; a query run that ends in an error, gets no page or extracts
\* nothing leaves it as it was, and a download offered before the run is
\* offered after it.
C10_StoredFrame ==
    [][ /\ session_df' # session_df =>
              /\ Extracted(last_run')
              /\ session_df' = KeywordFiltered(last_run')
        /\ FailedOrEmpty(last_run') =>
              /\ session_df' = session_df
              /\ offered # NotOffered => offered' = offered
      ]_vars

C10_Witness ==
    /\ last_run.kind = "empty" /\ ~last_run.nav.raised /\ last_run.nav.page.tables # <<>>
    /\ session_df # NoFrame /\ Len(session_df.data) = 2
    /\ offered # NotOffered

(***************************************************************************)
(* Specifications                                                          *)
(***************************************************************************)
\* get_filtered_soup, one call
InitNav == NavInit /\ TableIdle /\ DateIdle /\ UiIdle /\ now_year = 2025

NavFrame == UNCHANGED <<tblVars, dateVars, uiVars, now_year>>

NextNav ==
    \/ InitialGet /\ NavFrame
    \/ YearStep /\ NavFrame
    \/ RegionStep /\ NavFrame
    \/ TypeStep /\ NavFrame
    \/ Return /\ NavFrame

SpecNav == InitNav /\ [][NextNav]_vars

\* parse_table_to_df, one call
InitTable == TableInit /\ NavIdle /\ DateIdle /\ UiIdle /\ now_year = 2025

NextTable == ParseTable /\ UNCHANGED <<navVars, dateVars, uiVars, now_year>>

SpecTable == InitTable /\ [][NextTable]_vars

\* parse_event_date, one call
InitDate == DateInit /\ NavIdle /\ TableIdle /\ UiIdle /\ now_year \in NowYears

NextDate == ParseEventDate /\ UNCHANGED <<navVars, tblVars, uiVars, now_year>>

SpecDate == InitDate /\ [][NextDate]_vars

\* the Streamlit session: script runs started by the widgets and the button
InitUi == UiInit /\ NavIdle /\ TableIdle /\ DateIdle /\ now_year = 2025

UiFrame == UNCHANGED <<navVars, tblVars, dateVars, now_year>>

NextUi ==
    \/ ChangeYear /\ UiFrame
    \/ ChangeRegion /\ UiFrame
    \/ ChangeType /\ UiFrame
    \/ ChangeKeyword /\ UiFrame
    \/ ClickQuery /\ UiFrame

SpecUi == InitUi /\ [][NextUi]_vars

====
